---- MODULE Spec2Model ----
(***************************************************************************)
(* Model of the konnektr-mcp gateway core:                                 *)
(*   - CustomMiddleware (middleware.py): tenant resolution, upstream token *)
(*     extraction, per-request backend client and context variable;        *)
(*   - DualAuthOIDCProxy.verify_token (auth.py): JWTVerifier first, then   *)
(*     the parent OIDCProxy.                                               *)
(* Text (str / bytes) is a sequence of one-character strings, so that      *)
(* startswith, slicing and emptiness are computed as the code computes     *)
(* them.  Byte strings are drawn from ASCII text, on which .decode() keeps *)
(* the characters.                                                         *)
(***************************************************************************)
EXTENDS Integers, Sequences, FiniteSets, TLC

\* ---------------------------------------------------------------- bounds
NumReqs == 2
MaxQueryLen == 2
MaxHeaders == 2
MaxVerifyCalls == 2

Reqs == 1..NumReqs

\* ------------------------------------------------------------------ text
\* Python None: a value that is no text (its element is not one character)
None == <<"None">>
EmptyStr == <<>>

StartsWith(s, p) ==
    /\ Len(s) >= Len(p)
    /\ SubSeq(s, 1, Len(p)) = p

\* s[n:] of Python
SliceFrom(s, n) == SubSeq(s, n + 1, Len(s))

\* Python truthiness of an Optional[str]
Truthy(v) == v # None /\ v # EmptyStr

BearerPrefix == <<"B", "e", "a", "r", "e", "r", " ">>
McpPrefix == <<"/", "m", "c", "p">>
HEADER_NAME == "x-resource-id"
QUERY_PARAM == "resource_id"
AUTHORIZATION == "authorization"

\* ------------------------------------------------- dict(scope["headers"])
\* A later pair with the same name replaces an earlier one.
HeadersDict(hs) ==
    [n \in {hs[i][1] : i \in DOMAIN hs} |->
        LET last == CHOOSE i \in DOMAIN hs :
                        /\ hs[i][1] = n
                        /\ \A j \in DOMAIN hs : hs[j][1] = n => j <= i
        IN hs[last][2]]

DictGet(d, k, default) == IF k \in DOMAIN d THEN d[k] ELSE default

\* ------------------------------------------------ urllib.parse.parse_qs
\* The query string is the sequence of its name=value pairs.  parse_qs
\* (keep_blank_values=False) drops the pairs with a blank value and maps
\* each remaining name to the list of its values, in order.
ParseQs(qs) ==
    LET kept == SelectSeq(qs, LAMBDA p : p[2] # EmptyStr)
    IN [k \in {kept[i][1] : i \in DOMAIN kept} |->
            LET mine == SelectSeq(kept, LAMBDA p : p[1] = k)
            IN [i \in DOMAIN mine |-> mine[i][2]]]

\* ---------------------------------- CustomMiddleware._extract_resource_id
ExtractResourceIdHeaderFirst(scope) ==
    LET header_value == DictGet(HeadersDict(scope.headers), HEADER_NAME, EmptyStr)
        resource_ids == IF scope.query_string # <<>>
                        THEN DictGet(ParseQs(scope.query_string), QUERY_PARAM, <<>>)
                        ELSE <<>>
    IN IF header_value # EmptyStr THEN header_value
       ELSE IF resource_ids # <<>> THEN resource_ids[1]
       ELSE None

\* lines 157-160 taking the last of the resource_id values
ExtractResourceIdLastValue(scope) ==
    LET resource_ids == IF scope.query_string # <<>>
                        THEN DictGet(ParseQs(scope.query_string), QUERY_PARAM, <<>>)
                        ELSE <<>>
        header_value == DictGet(HeadersDict(scope.headers), HEADER_NAME, EmptyStr)
    IN IF resource_ids # <<>> THEN resource_ids[Len(resource_ids)]
       ELSE IF header_value # EmptyStr THEN header_value
       ELSE None

ExtractResourceId(scope) ==
    LET resource_ids == IF scope.query_string # <<>>
                        THEN DictGet(ParseQs(scope.query_string), QUERY_PARAM, <<>>)
                        ELSE <<>>
        header_value == DictGet(HeadersDict(scope.headers), HEADER_NAME, EmptyStr)
    IN IF resource_ids # <<>> THEN resource_ids[1]
       ELSE IF header_value # EmptyStr THEN header_value
       ELSE None

\* --------------- CustomMiddleware._extract_token_from_header, lines 185-199
\* The part before the await: the bearer token of the Authorization header,
\* or None when the header is absent, not "Bearer ..." or holds no token.
BearerTokenEmptyAllowed(scope) ==
    LET auth_header == DictGet(HeadersDict(scope.headers), AUTHORIZATION, EmptyStr)
    IN IF auth_header = EmptyStr THEN None
       ELSE IF ~StartsWith(auth_header, BearerPrefix) THEN None
       ELSE SliceFrom(auth_header, 7)

BearerToken(scope) ==
    LET auth_header == DictGet(HeadersDict(scope.headers), AUTHORIZATION, EmptyStr)
    IN IF auth_header = EmptyStr THEN None
       ELSE IF ~StartsWith(auth_header, BearerPrefix) THEN None
       ELSE LET token == SliceFrom(auth_header, 7)
            IN IF token = EmptyStr THEN None ELSE token

\* ------------------------------------------------ client_factory / config
\* config.py: api_base_url_template = "https://{resource_id}.api.graph.konnektr.io"
ApiBaseUrlTemplate(resource_id) ==
    <<"https://">> \o resource_id \o <<".api.graph.konnektr.io">>

\* create_client building the credential without the access token
create_clientNoToken(resource_id, access_token) ==
    [endpoint |-> ApiBaseUrlTemplate(resource_id),
     credential |-> EmptyStr,
     close_calls |-> 0]

\* create_client(resource_id, access_token): a client that is not closed yet
create_client(resource_id, access_token) ==
    [endpoint |-> ApiBaseUrlTemplate(resource_id),
     credential |-> access_token,
     close_calls |-> 0]

\* ------------------------------------------------------- request inputs
Tenants == {<<"a">>, <<"x">>}
RawToken == <<"t">>
UpstreamToken == <<"U">>

Hdr(name, value) == <<name, value>>
QueryA == <<<<QUERY_PARAM, <<"a">>>>>>
QueryBlank == <<<<QUERY_PARAM, EmptyStr>>>>
HdrX == Hdr(HEADER_NAME, <<"x">>)
HdrXEmpty == Hdr(HEADER_NAME, EmptyStr)
HdrBearer == Hdr(AUTHORIZATION, BearerPrefix \o RawToken)
HdrBearerEmpty == Hdr(AUTHORIZATION, BearerPrefix)
HdrBasic == Hdr(AUTHORIZATION, <<"B", "a", "s", "i", "c", " ", "t">>)
PathMcp == McpPrefix
PathHealth == <<"/", "h", "e", "a", "l", "t", "h">>

MkScope(type, path, query_string, headers) ==
    [type |-> type, path |-> path, query_string |-> query_string, headers |-> headers]

\* The requests the gateway is driven with.
Scopes ==
    {MkScope("websocket", PathMcp, QueryA, <<HdrBearer>>),
     MkScope("http", PathHealth, <<>>, <<>>),
     \* tenant identification, with a bearer token
     MkScope("http", PathMcp, <<>>, <<HdrBearer>>),
     MkScope("http", PathMcp, QueryBlank, <<HdrXEmpty, HdrBearer>>),
     MkScope("http", PathMcp, <<>>, <<>>),
     MkScope("http", PathMcp, QueryA, <<HdrX, HdrBearer>>),
     MkScope("http", PathMcp, QueryBlank, <<HdrX, HdrBearer>>),
     \* Authorization header, with a tenant
     MkScope("http", PathMcp, QueryA, <<>>),
     MkScope("http", PathMcp, QueryA, <<HdrBasic>>),
     MkScope("http", PathMcp, QueryA, <<HdrBearerEmpty>>)}

NoScope == MkScope("", <<>>, <<>>, <<>>)

\* ------------------------------------------------------------------ state
VARIABLES
    auth,             \* CustomMiddleware.auth: "None" or "OIDCProxy"
    scope,            \* the ASGI scope of each request
    pc,               \* where each request's __call__ coroutine stands
    locals,           \* resource_id and token of the suspended coroutine
    request_context,  \* the ContextVar _request_context, per request task
    reset_token,      \* the Token returned by _request_context.set
    clients,          \* the backend clients created, by creating request
    response,         \* the JSONResponse the middleware itself sent
    calls,            \* per request: calls of load_access_token, app, set
    load_result,      \* what auth.load_access_token answered
    app_exit,         \* how the wrapped app ended
    call_exit,        \* how __call__ ended
    observed,         \* the running handler's local: what get_current_context() gave
    vt,               \* the DualAuthOIDCProxy.verify_token call
    probe,            \* input and result of _extract_resource_id alone
    embedding_service,\* the global _embedding_service of embeddings.py
    tool,             \* the tool coroutine that runs: arguments, locals, position
    graph,            \* the tenant's graph behind the backend client
    client_calls      \* the calls made on backend clients, in order

vars == <<auth, scope, pc, locals, request_context, reset_token, clients,
          response, calls, load_result, app_exit, call_exit, observed, vt, probe,
          embedding_service, tool, graph, client_calls>>

toolVars == <<embedding_service, tool, graph, client_calls>>

reqVars == <<auth, scope, pc, locals, request_context, reset_token, clients,
             response, calls, load_result, app_exit, call_exit, observed>>

\* RequestContext(resource_id, access_token, client); the client is held by
\* reference (the key in clients).  NoContext is the ContextVar's default None.
RequestContext(resource_id, access_token, client) ==
    [resource_id |-> resource_id, access_token |-> access_token, client |-> client]

NoContext == RequestContext(None, None, 0)

NoResponse == [status_code |-> 0, error |-> ""]
JSONResponse(error, status_code) == [status_code |-> status_code, error |-> error]

NoLocals == [resource_id |-> None, token |-> None]
NoCalls == [load_access_token |-> 0, app |-> 0, context_set |-> 0]

\* ------------------------------------------------------------ ContextVar
\* Every request is served in a task of its own, and a ContextVar holds one
\* value per task context.
ContextVarSetGlobal(store, r, value) == [q \in DOMAIN store |-> value]

ContextVarSet(store, r, value) == [store EXCEPT ![r] = value]

ContextVarGet(store, r) == store[r]

\* ContextVar.reset(token): back to the value the matching set() replaced
ContextVarReset(store, r, token) == [store EXCEPT ![r] = token]

\* get_current_context(): the context, or RuntimeError when it is None
get_current_context(store, r) ==
    LET ctx == ContextVarGet(store, r)
    IN IF ctx = NoContext THEN [raised |-> TRUE, ctx |-> NoContext]
       ELSE [raised |-> FALSE, ctx |-> ctx]

NotCalled == [raised |-> FALSE, ctx |-> NoContext]

\* ------------------------------------------------------- the idle values
\* fastmcp AccessToken: the token it carries and the verifier that made it;
\* NoAccessToken is the None that verify_token returns
AccessToken(token, verifier) == [token |-> token, verifier |-> verifier]

NoAccessToken == AccessToken(None, "")

VerifyIdle ==
    [pc |-> "idle", token |-> None, result |-> NoAccessToken, raised |-> FALSE,
     stages |-> <<>>, local |-> "", exchange |-> "", returned |-> <<>>]

NoProbe == [scope |-> NoScope, resource_id |-> None, done |-> FALSE]

\* a dict argument: None, or its items as name-value pairs
NoneDict == [is_none |-> TRUE, items |-> {}]
Dict(items) == [is_none |-> FALSE, items |-> items]
TruthyDict(d) == ~d.is_none /\ d.items # {}

ToolIdle ==
    [name |-> "", task |-> 0, pc |-> "idle", client |-> 0,
     twin_id |-> "", flag |-> FALSE, search_text |-> None,
     properties |-> NoneDict, embeddings |-> NoneDict,
     all_properties |-> {}, query_embedding |-> None,
     phase |-> "", pending |-> <<>>, result |-> "", raised |-> FALSE]

NoGraph == [twins |-> {}, rels |-> {}]

\* no tool runs and no embedding service is set
InitNoTool ==
    /\ embedding_service = "None"
    /\ tool = ToolIdle
    /\ graph = NoGraph
    /\ client_calls = <<>>

InitReqs ==
    /\ scope = [r \in Reqs |-> NoScope]
    /\ pc = [r \in Reqs |-> "idle"]
    /\ locals = [r \in Reqs |-> NoLocals]
    /\ request_context = [r \in Reqs |-> NoContext]
    /\ reset_token = [r \in Reqs |-> NoContext]
    /\ clients = <<>>
    /\ response = [r \in Reqs |-> NoResponse]
    /\ calls = [r \in Reqs |-> NoCalls]
    /\ load_result = [r \in Reqs |-> ""]
    /\ app_exit = [r \in Reqs |-> ""]
    /\ call_exit = [r \in Reqs |-> ""]
    /\ observed = [r \in Reqs |-> NotCalled]

\* CustomMiddleware(mcp_app, auth_provider=auth): auth is None when
\* settings.auth_enabled is false
Init ==
    /\ auth \in {"None", "OIDCProxy"}
    /\ InitReqs
    /\ vt = VerifyIdle
    /\ probe = NoProbe
    /\ InitNoTool

\* ------------------------------------------------ CustomMiddleware.__call__
\* lines 92-94 alone, the path test of lines 96-101 lost
PassThroughScopeTypeOnly(s) == s.type # "http"

\* lines 92-101: not http, or not under /mcp: the wrapped app, nothing else
PassThroughScope(s) == s.type # "http" \/ ~StartsWith(s.path, McpPrefix)

\* lines 106-116
Reject400(r) ==
    /\ response' = [response EXCEPT ![r] = JSONResponse("missing_resource_id", 400)]
    /\ pc' = [pc EXCEPT ![r] = "done"]
    /\ call_exit' = [call_exit EXCEPT ![r] = "return"]

\* lines 124-133
Reject401(r) ==
    /\ response' = [response EXCEPT ![r] = JSONResponse("authentication_required", 401)]
    /\ pc' = [pc EXCEPT ![r] = "done"]
    /\ call_exit' = [call_exit EXCEPT ![r] = "return"]

\* lines 136-147: the client, the context, _request_context.set, then the
\* wrapped app is awaited
BindAndDispatch(r, resource_id, access_token) ==
    LET request_ctx == RequestContext(resource_id, access_token, r)
    IN /\ clients' = clients @@ (r :> create_client(resource_id, access_token))
       /\ reset_token' = [reset_token EXCEPT ![r] = ContextVarGet(request_context, r)]
       /\ request_context' = ContextVarSet(request_context, r, request_ctx)
       /\ calls' = [calls EXCEPT ![r].context_set = @ + 1, ![r].app = @ + 1]
       /\ pc' = [pc EXCEPT ![r] = "app"]
       /\ UNCHANGED <<response, call_exit>>

\* lines 92-134: the first gate of __call__ that stops the request, in the
\* order of the code; "load" is the await of load_access_token (line 208)
\* and "bind" the construction of the client without a token (auth is None)
GateAuthFirst(s, a) ==
    IF PassThroughScope(s) THEN "passthrough"
    ELSE IF a # "None" /\ BearerToken(s) = None THEN "401"
    ELSE IF a # "None" THEN "load"
    ELSE IF ~Truthy(ExtractResourceId(s)) THEN "400"
    ELSE "bind"

\* lines 118-137 with the authentication block skipped
GateBindFirst(s, a) ==
    IF PassThroughScope(s) THEN "passthrough"
    ELSE IF ~Truthy(ExtractResourceId(s)) THEN "400"
    ELSE "bind"

\* lines 120-134 with the test of self.auth lost
GateAlwaysAuth(s, a) ==
    IF PassThroughScope(s) THEN "passthrough"
    ELSE IF ~Truthy(ExtractResourceId(s)) THEN "400"
    ELSE IF BearerToken(s) = None THEN "401"
    ELSE "load"

\* lines 104-134 with the test of resource_id (lines 106-116) lost
GateNoTenantCheck(s, a) ==
    IF PassThroughScope(s) THEN "passthrough"
    ELSE IF a = "None" THEN "bind"
    ELSE IF BearerToken(s) = None THEN "401"
    ELSE "load"

Gate(s, a) ==
    IF PassThroughScope(s) THEN "passthrough"
    ELSE IF ~Truthy(ExtractResourceId(s)) THEN "400"
    ELSE IF a = "None" THEN "bind"
    ELSE IF BearerToken(s) = None THEN "401"
    ELSE "load"

\* lines 90-134, up to the first await: the request arrives with scope s
Call(r, s) ==
    /\ pc[r] = "idle"
    /\ scope' = [scope EXCEPT ![r] = s]
    /\ LET gate == Gate(s, auth)
           resource_id == ExtractResourceId(s)
       IN CASE gate = "passthrough" ->
                 /\ calls' = [calls EXCEPT ![r].app = @ + 1]
                 /\ pc' = [pc EXCEPT ![r] = "passthrough"]
                 /\ UNCHANGED <<locals, request_context, reset_token, clients,
                                response, call_exit>>
            [] gate = "400" ->
                 /\ Reject400(r)
                 /\ UNCHANGED <<locals, request_context, reset_token, clients, calls>>
            [] gate = "bind" ->
                 /\ BindAndDispatch(r, resource_id, EmptyStr)
                 /\ locals' = [locals EXCEPT ![r].resource_id = resource_id]
            [] gate = "401" ->
                 /\ Reject401(r)
                 /\ locals' = [locals EXCEPT ![r].resource_id = resource_id]
                 /\ UNCHANGED <<request_context, reset_token, clients, calls>>
            [] gate = "load" ->
                 /\ locals' = [locals EXCEPT ![r] =
                                 [resource_id |-> resource_id, token |-> BearerToken(s)]]
                 /\ calls' = [calls EXCEPT ![r].load_access_token = @ + 1]
                 /\ pc' = [pc EXCEPT ![r] = "load_access_token"]
                 /\ UNCHANGED <<request_context, reset_token, clients,
                                response, call_exit>>
    /\ UNCHANGED <<auth, load_result, app_exit, observed, vt, probe, toolVars>>

\* What OIDCProxy.load_access_token can answer: an AccessToken whose .token
\* is the upstream token, an AccessToken with an empty .token, None, an
\* exception; or the task is cancelled while it waits.
LoadResults == {"upstream", "empty", "none", "raise", "cancel"}

\* lines 208-230 returning the header token whatever the lookup gave
TokenResultRaw(token, result) ==
    CASE result = "upstream" -> token
      [] result = "empty" -> None
      [] result = "none" -> token
      [] result = "raise" -> None

\* lines 208-230 with lines 217-221 lost: an empty upstream token falls
\* through to the header token
TokenResultEmptyFallsThrough(token, result) ==
    CASE result = "upstream" -> UpstreamToken
      [] result = "empty" -> token
      [] result = "none" -> token
      [] result = "raise" -> None

\* lines 208-230 with the except clause returning the header token
TokenResultRaiseFallsThrough(token, result) ==
    CASE result = "upstream" -> UpstreamToken
      [] result = "empty" -> None
      [] result = "none" -> token
      [] result = "raise" -> token

\* lines 208-230: the value _extract_token_from_header returns
TokenResult(token, result) ==
    CASE result = "upstream" -> UpstreamToken
      [] result = "empty" -> None
      [] result = "none" -> token
      [] result = "raise" -> None

\* lines 208-230 and 124-147: load_access_token answers
LoadAccessTokenReturns(r, result) ==
    /\ pc[r] = "load_access_token"
    /\ load_result' = [load_result EXCEPT ![r] = result]
    /\ IF result = "cancel"
       THEN /\ pc' = [pc EXCEPT ![r] = "done"]
            /\ call_exit' = [call_exit EXCEPT ![r] = "cancelled"]
            /\ UNCHANGED <<request_context, reset_token, clients, response, calls>>
       ELSE LET token_result == TokenResult(locals[r].token, result)
            IN IF ~Truthy(token_result)
               THEN /\ Reject401(r)
                    /\ UNCHANGED <<request_context, reset_token, clients, calls>>
               ELSE BindAndDispatch(r, locals[r].resource_id, token_result)
    /\ UNCHANGED <<auth, scope, locals, app_exit, observed, vt, probe, toolVars>>

\* A tool handler of the wrapped app calls get_current_context() and keeps
\* the answer in a local for as long as the app runs
Handler(r) ==
    /\ pc[r] \in {"app", "passthrough"}
    /\ observed' = [observed EXCEPT ![r] = get_current_context(request_context, r)]
    /\ UNCHANGED <<auth, scope, pc, locals, request_context, reset_token, clients,
                   response, calls, load_result, app_exit, call_exit, vt, probe, toolVars>>

AppExits == {"return", "raise", "cancelled"}

\* lines 93-94, 100-101: the wrapped app ends, with no context around it
PassThroughEnds(r, how) ==
    /\ pc[r] = "passthrough"
    /\ app_exit' = [app_exit EXCEPT ![r] = how]
    /\ call_exit' = [call_exit EXCEPT ![r] = how]
    /\ observed' = [observed EXCEPT ![r] = NotCalled]
    /\ pc' = [pc EXCEPT ![r] = "done"]
    /\ UNCHANGED <<auth, scope, locals, request_context, reset_token, clients,
                   response, calls, load_result, vt, probe, toolVars>>

\* lines 146-150 without the finally: released on a normal return only
AppEndsNoFinally(r, how) ==
    /\ pc[r] = "app"
    /\ app_exit' = [app_exit EXCEPT ![r] = how]
    /\ IF how = "return"
       THEN /\ request_context' = ContextVarReset(request_context, r, reset_token[r])
            /\ clients' = [clients EXCEPT ![r].close_calls = @ + 1]
            /\ pc' = [pc EXCEPT ![r] = "close"]
            /\ UNCHANGED call_exit
       ELSE /\ pc' = [pc EXCEPT ![r] = "done"]
            /\ call_exit' = [call_exit EXCEPT ![r] = how]
            /\ UNCHANGED <<request_context, clients>>
    /\ observed' = [observed EXCEPT ![r] = NotCalled]
    /\ UNCHANGED <<auth, scope, locals, reset_token, response, calls, load_result,
                   vt, probe, toolVars>>

\* lines 146-150 without the reset of line 149
AppEndsNoReset(r, how) ==
    /\ pc[r] = "app"
    /\ app_exit' = [app_exit EXCEPT ![r] = how]
    /\ clients' = [clients EXCEPT ![r].close_calls = @ + 1]
    /\ pc' = [pc EXCEPT ![r] = "close"]
    /\ observed' = [observed EXCEPT ![r] = NotCalled]
    /\ UNCHANGED <<auth, scope, locals, request_context, reset_token, response,
                   calls, load_result, call_exit, vt, probe, toolVars>>

\* lines 146-150: the wrapped app returns, raises or is cancelled; the
\* finally block resets the context variable and awaits client.close()
AppEnds(r, how) ==
    /\ pc[r] = "app"
    /\ app_exit' = [app_exit EXCEPT ![r] = how]
    /\ request_context' = ContextVarReset(request_context, r, reset_token[r])
    /\ clients' = [clients EXCEPT ![r].close_calls = @ + 1]
    /\ pc' = [pc EXCEPT ![r] = "close"]
    /\ observed' = [observed EXCEPT ![r] = NotCalled]
    /\ UNCHANGED <<auth, scope, locals, reset_token, response, calls, load_result,
                   call_exit, vt, probe, toolVars>>

\* line 150: client.close() returns or raises; __call__ ends
CloseReturns(r, ok) ==
    /\ pc[r] = "close"
    /\ pc' = [pc EXCEPT ![r] = "done"]
    /\ call_exit' = [call_exit EXCEPT ![r] = IF ok THEN app_exit[r] ELSE "raise"]
    /\ UNCHANGED <<auth, scope, locals, request_context, reset_token, clients,
                   response, calls, load_result, app_exit, observed, vt, probe, toolVars>>

Next ==
    \/ \E r \in Reqs, s \in Scopes : Call(r, s)
    \/ \E r \in Reqs, result \in LoadResults : LoadAccessTokenReturns(r, result)
    \/ \E r \in Reqs : Handler(r)
    \/ \E r \in Reqs, how \in AppExits : PassThroughEnds(r, how)
    \/ \E r \in Reqs, how \in AppExits : AppEnds(r, how)
    \/ \E r \in Reqs, ok \in BOOLEAN : CloseReturns(r, ok)

Spec == Init /\ [][Next]_vars

\* ------------------------- get_current_context() outside the dispatch
\* Code running in the task of request r calls get_current_context() while
\* __call__ waits for load_access_token, waits for client.close(), or has
\* returned.
GetCurrentContextOutside(r) ==
    /\ pc[r] \in {"load_access_token", "close", "done"}
    /\ observed' = [observed EXCEPT ![r] = get_current_context(request_context, r)]
    /\ UNCHANGED <<auth, scope, pc, locals, request_context, reset_token, clients,
                   response, calls, load_result, app_exit, call_exit, vt, probe, toolVars>>

ContextScopes ==
    {MkScope("http", PathHealth, <<>>, <<>>),
     MkScope("http", PathMcp, <<>>, <<HdrBearer>>),
     MkScope("http", PathMcp, QueryA, <<HdrBasic>>),
     MkScope("http", PathMcp, QueryA, <<HdrX, HdrBearer>>)}

NextContext ==
    \/ \E r \in Reqs, s \in ContextScopes : Call(r, s)
    \/ \E r \in Reqs, result \in LoadResults : LoadAccessTokenReturns(r, result)
    \/ \E r \in Reqs : Handler(r)
    \/ \E r \in Reqs : GetCurrentContextOutside(r)
    \/ \E r \in Reqs, how \in AppExits : PassThroughEnds(r, how)
    \/ \E r \in Reqs, how \in AppExits : AppEnds(r, how)
    \/ \E r \in Reqs, ok \in BOOLEAN : CloseReturns(r, ok)

SpecContext == Init /\ [][NextContext]_vars

\* -------------------------------------- DualAuthOIDCProxy.verify_token
\* What a stage (JWTVerifier.verify_token, OIDCProxy.verify_token) can do:
\* return an AccessToken, return None, raise an Exception; or the task is
\* cancelled while it waits (CancelledError is no Exception).
StageResults == {"token", "none", "raise", "cancel"}

VerifyTokens == {<<"j">>, <<"o">>, <<"z">>}

\* lines 51-58 with the return of line 56 lost
AfterLocalNoReturn(result) ==
    CASE result = "token" -> "exchange"
      [] result = "none" -> "exchange"
      [] result = "raise" -> "exchange"
      [] result = "cancel" -> "propagate"

\* lines 51-58 without the except clause
AfterLocalUncaught(result) ==
    CASE result = "token" -> "return_token"
      [] result = "none" -> "exchange"
      [] result = "raise" -> "propagate"
      [] result = "cancel" -> "propagate"

\* lines 51-58: what follows the JWTVerifier stage
AfterLocal(result) ==
    CASE result = "token" -> "return_token"
      [] result = "none" -> "exchange"
      [] result = "raise" -> "exchange"
      [] result = "cancel" -> "propagate"

\* lines 61-71 without the except clause
AfterExchangeUncaught(result) ==
    CASE result = "token" -> "return_token"
      [] result = "none" -> "return_none"
      [] result = "raise" -> "propagate"
      [] result = "cancel" -> "propagate"

\* lines 61-71 returning the result whether or not it is one
AfterExchangeAlwaysReturns(result) ==
    CASE result = "token" -> "return_token"
      [] result = "none" -> "return_token"
      [] result = "raise" -> "return_none"
      [] result = "cancel" -> "propagate"

\* lines 61-71: what follows the parent OIDCProxy stage
AfterExchange(result) ==
    CASE result = "token" -> "return_token"
      [] result = "none" -> "return_none"
      [] result = "raise" -> "return_none"
      [] result = "cancel" -> "propagate"

VerifyEnds(v, result, raised) ==
    [v EXCEPT !.pc = "returned", !.result = result, !.raised = raised,
              !.returned = Append(@, [result |-> result, raised |-> raised])]

\* line 53: verify_token(token) is called and awaits the JWTVerifier
VerifyToken(token) ==
    /\ vt.pc \in {"idle", "returned"}
    /\ Len(vt.returned) < MaxVerifyCalls
    /\ vt' = [vt EXCEPT !.pc = "jwt_verifier", !.token = token,
                        !.result = NoAccessToken, !.raised = FALSE,
                        !.stages = <<"local">>, !.local = "", !.exchange = ""]
    /\ UNCHANGED <<reqVars, probe, toolVars>>

\* lines 53-63: the JWTVerifier answers
JwtVerifierReturns(result) ==
    /\ vt.pc = "jwt_verifier"
    /\ LET v == [vt EXCEPT !.local = result]
           step == AfterLocal(result)
       IN vt' = CASE step = "return_token" ->
                       VerifyEnds(v, AccessToken(vt.token, "JWTVerifier"), FALSE)
                  [] step = "exchange" ->
                       [v EXCEPT !.pc = "oidc_proxy",
                                 !.stages = Append(@, "exchange")]
                  [] step = "propagate" ->
                       VerifyEnds(v, NoAccessToken, TRUE)
    /\ UNCHANGED <<reqVars, probe, toolVars>>

\* lines 63-71: the parent OIDCProxy.verify_token answers
OidcProxyReturns(result) ==
    /\ vt.pc = "oidc_proxy"
    /\ LET v == [vt EXCEPT !.exchange = result]
           step == AfterExchange(result)
       IN vt' = CASE step = "return_token" ->
                       VerifyEnds(v, AccessToken(UpstreamToken, "OIDCProxy"), FALSE)
                  [] step = "return_none" ->
                       VerifyEnds(v, NoAccessToken, FALSE)
                  [] step = "propagate" ->
                       VerifyEnds(v, NoAccessToken, TRUE)
    /\ UNCHANGED <<reqVars, probe, toolVars>>

InitVerify ==
    /\ auth = "OIDCProxy"
    /\ InitReqs
    /\ vt = VerifyIdle
    /\ probe = NoProbe
    /\ InitNoTool

NextVerify ==
    \/ \E token \in VerifyTokens : VerifyToken(token)
    \/ \E result \in StageResults : JwtVerifierReturns(result)
    \/ \E result \in StageResults : OidcProxyReturns(result)

SpecVerify == InitVerify /\ [][NextVerify]_vars

\* ---------------------------------------- _extract_resource_id on its own
Names == {QUERY_PARAM, "other"}
Values == {EmptyStr, <<"a">>, <<"b">>}
HeaderNames == {HEADER_NAME, AUTHORIZATION}
HeaderValues == {EmptyStr, <<"x">>, <<"a">>}

SeqsUpTo(S, n) == UNION {[1..k -> S] : k \in 0..n}

ResolveScopes ==
    {MkScope("http", PathMcp, q, h) :
        q \in SeqsUpTo(Names \X Values, MaxQueryLen),
        h \in SeqsUpTo(HeaderNames \X HeaderValues, MaxHeaders)}

InitResolve ==
    /\ auth = "None"
    /\ InitReqs
    /\ vt = VerifyIdle
    /\ probe \in {[scope |-> s, resource_id |-> None, done |-> FALSE] : s \in ResolveScopes}
    /\ InitNoTool

\* line 104: resource_id = self._extract_resource_id(scope)
Resolve ==
    /\ ~probe.done
    /\ probe' = [probe EXCEPT !.resource_id = ExtractResourceId(probe.scope),
                              !.done = TRUE]
    /\ UNCHANGED <<reqVars, vt, toolVars>>

NextResolve == Resolve

SpecResolve == InitResolve /\ [][NextResolve]_vars

\* ---------------------------------------------------- the tools of server.py
\* A tool is a coroutine of the wrapped app.  It runs in the task of a
\* request; one tool call is followed from its start to its end.
ToolTwin == "t"
Twins == {"t", "u"}

Rel(sourceId, relationshipId, targetId) ==
    [sourceId |-> sourceId, relationshipId |-> relationshipId, targetId |-> targetId]

\* the relationships a graph may hold, in the order a listing gives them
RelSeq == <<Rel("t", "r1", "u"), Rel("u", "r2", "t"), Rel("t", "r3", "t")>>

Graphs == {[twins |-> Twins, rels |-> {RelSeq[i] : i \in I}] : I \in SUBSET DOMAIN RelSeq}

\* an embedding vector; [] is the empty embedding
Vector == <<"v">>
EmptyList == <<>>
SearchText == <<"q">>

\* embeddings.py, lines 338-340
is_embedding_service_configured(service) == service # "None"

\* middleware.py, lines 53-55: get_current_context().client
get_client(store, r) ==
    LET got == get_current_context(store, r)
    IN [raised |-> got.raised, client |-> got.ctx.client]

\* a call on the backend client
ClientCall(op, client, a, b, text, vector, contents) ==
    [op |-> op, client |-> client, a |-> a, b |-> b, text |-> text,
     vector |-> vector, contents |-> contents]

\* the coroutine awaits a call on its client
Await(t, op, a, b, text, vector, contents) ==
    [tool |-> [t EXCEPT !.pc = op],
     calls |-> Append(client_calls,
                      ClientCall(op, t.client, a, b, text, vector, contents))]

\* the coroutine awaits the embedding service
AwaitService(t, op) == [tool |-> [t EXCEPT !.pc = op], calls |-> client_calls]

\* the coroutine returns a result, or ends with an exception
Returns(t, result) ==
    [tool |-> [t EXCEPT !.pc = "returned", !.result = result], calls |-> client_calls]

Raises(t) ==
    [tool |-> [t EXCEPT !.pc = "returned", !.raised = TRUE], calls |-> client_calls]

Step(x) ==
    /\ tool' = x.tool
    /\ client_calls' = x.calls

Started(name, r) == [ToolIdle EXCEPT !.name = name, !.task = r]

\* -------------------------------- delete_digital_twin, server.py 537-546
Outgoing(g, twin_id) == SelectSeq(RelSeq, LAMBDA e : e \in g.rels /\ e.sourceId = twin_id)
Incoming(g, twin_id) == SelectSeq(RelSeq, LAMBDA e : e \in g.rels /\ e.targetId = twin_id)

\* lines 540-545 with the loop over the incoming relationships lost
NextOfLoopNoIncoming(t) ==
    IF t.pending # <<>>
    THEN Await(t, "delete_relationship", Head(t.pending).sourceId,
               Head(t.pending).relationshipId, None, None, {})
    ELSE Await(t, "delete_digital_twin", t.twin_id, "", None, None, {})

\* lines 540-545: the next relationship of the running loop is deleted, or
\* the loop is over and what follows it is awaited
NextOfLoop(t) ==
    IF t.pending # <<>>
    THEN Await(t, "delete_relationship", Head(t.pending).sourceId,
               Head(t.pending).relationshipId, None, None, {})
    ELSE IF t.phase = "outgoing"
    THEN Await(t, "list_incoming_relationships", t.twin_id, "", None, None, {})
    ELSE Await(t, "delete_digital_twin", t.twin_id, "", None, None, {})

\* lines 537-545, up to the first await
DeleteDigitalTwin(r, twin_id, delete_relationships) ==
    /\ tool.pc = "idle"
    /\ LET got == get_client(request_context, r)
           t == [Started("delete_digital_twin", r) EXCEPT
                    !.twin_id = twin_id, !.flag = delete_relationships,
                    !.client = got.client]
       IN Step(IF got.raised THEN Raises(t)
               ELSE IF delete_relationships
               THEN Await([t EXCEPT !.phase = "outgoing"],
                          "list_relationships", twin_id, "", None, None, {})
               ELSE Await(t, "delete_digital_twin", twin_id, "", None, None, {}))
    /\ UNCHANGED <<reqVars, vt, probe, embedding_service, graph>>

\* line 540: the listing of the outgoing relationships answers or fails
ListRelationshipsReturns(ok) ==
    /\ tool.pc = "list_relationships"
    /\ Step(IF ok THEN NextOfLoop([tool EXCEPT !.pending = Outgoing(graph, tool.twin_id)])
            ELSE Raises(tool))
    /\ UNCHANGED <<reqVars, vt, probe, embedding_service, graph>>

\* line 543: the listing of the incoming relationships answers or fails
ListIncomingRelationshipsReturns(ok) ==
    /\ tool.pc = "list_incoming_relationships"
    /\ Step(IF ok THEN NextOfLoop([tool EXCEPT !.phase = "incoming",
                                               !.pending = Incoming(graph, tool.twin_id)])
            ELSE Raises(tool))
    /\ UNCHANGED <<reqVars, vt, probe, embedding_service, graph>>

\* lines 541, 544: delete_relationship answers or fails
DeleteRelationshipReturns(ok) ==
    /\ tool.pc = "delete_relationship"
    /\ IF ok
       THEN /\ graph' = [graph EXCEPT !.rels = @ \ {Head(tool.pending)}]
            /\ Step(NextOfLoop([tool EXCEPT !.pending = Tail(@)]))
       ELSE /\ Step(Raises(tool))
            /\ UNCHANGED graph
    /\ UNCHANGED <<reqVars, vt, probe, embedding_service>>

\* lines 545-546: delete_digital_twin answers or fails
DeleteDigitalTwinReturns(ok) ==
    /\ tool.pc = "delete_digital_twin"
    /\ IF ok
       THEN /\ graph' = [graph EXCEPT !.twins = @ \ {tool.twin_id}]
            /\ Step(Returns(tool, "success"))
       ELSE /\ Step(Raises(tool))
            /\ UNCHANGED graph
    /\ UNCHANGED <<reqVars, vt, probe, embedding_service>>

\* ------------------- search_models 322-346, search_digital_twins 580-605
\* what embedding_service.generate_embedding can do: return a vector,
\* return [] (embeddings.py line 217), return None, raise
EmbeddingResults == {"vector", "empty", "none", "raise"}

\* lines 325-338, 583-596: query_embedding after the try block.  The
\* assignment of line 329 (587) comes before the test of line 330 (588), and
\* the except clause leaves the variable as it is.
QueryEmbeddingAfterTry(result) ==
    CASE result = "vector" -> Vector
      [] result = "empty" -> EmptyList
      [] result = "none" -> None
      [] result = "raise" -> None

\* search_text or ""
OrEmpty(text) == IF Truthy(text) THEN text ELSE EmptyStr

\* lines 322-346, up to the first await
SearchModels(r, search_text, use_vector_search) ==
    /\ tool.pc = "idle"
    /\ LET got == get_client(request_context, r)
           t == [Started("search_models", r) EXCEPT
                    !.search_text = search_text, !.flag = use_vector_search,
                    !.client = got.client]
       IN Step(IF got.raised THEN Raises(t)
               ELSE IF /\ use_vector_search
                       /\ Truthy(search_text)
                       /\ is_embedding_service_configured(embedding_service)
               THEN AwaitService(t, "generate_embedding")
               ELSE Await(t, "search_models", "", "", OrEmpty(search_text), None, {}))
    /\ UNCHANGED <<reqVars, vt, probe, embedding_service, graph>>

\* lines 580-605, up to the first await
SearchDigitalTwins(r, search_text, use_vector_search) ==
    /\ tool.pc = "idle"
    /\ LET got == get_client(request_context, r)
           t == [Started("search_digital_twins", r) EXCEPT
                    !.search_text = search_text, !.flag = use_vector_search,
                    !.client = got.client]
       IN Step(IF got.raised THEN Raises(t)
               ELSE IF /\ use_vector_search
                       /\ is_embedding_service_configured(embedding_service)
               THEN AwaitService(t, "generate_embedding")
               ELSE Await(t, "search_twins", "", "", search_text, None, {}))
    /\ UNCHANGED <<reqVars, vt, probe, embedding_service, graph>>

\* lines 329-346, 587-605, 669-734: generate_embedding answers
GenerateEmbeddingReturns(result) ==
    /\ tool.pc = "generate_embedding"
    /\ LET t == [tool EXCEPT !.query_embedding = QueryEmbeddingAfterTry(result)]
       IN Step(CASE tool.name = "search_models" ->
                      Await(t, "search_models", "", "", OrEmpty(t.search_text),
                            t.query_embedding, {})
                 [] tool.name = "search_digital_twins" ->
                      Await(t, "search_twins", "", "", t.search_text,
                            t.query_embedding, {})
                 [] tool.name = "vector_search_with_graph" ->
                      IF result = "raise" THEN Raises(tool)
                      ELSE IF ~Truthy(t.query_embedding)
                      THEN Returns(t, "success_false")
                      ELSE Await(t, "query_twins", "", "", None, t.query_embedding, {}))
    /\ UNCHANGED <<reqVars, vt, probe, embedding_service, graph>>

\* lines 342-346, 599-605: the backend search answers or fails
SearchReturns(ok) ==
    /\ tool.pc \in {"search_models", "search_twins"}
    /\ Step(IF ok THEN Returns(tool, "results") ELSE Raises(tool))
    /\ UNCHANGED <<reqVars, vt, probe, embedding_service, graph>>

\* ------------------------------ vector_search_with_graph, lines 659-773
VectorSearchWithGraph(r, search_text) ==
    /\ tool.pc = "idle"
    /\ LET t == [Started("vector_search_with_graph", r) EXCEPT
                    !.search_text = search_text]
           got == get_client(request_context, r)
       IN Step(IF ~is_embedding_service_configured(embedding_service)
               THEN Returns(t, "success_false")
               ELSE IF got.raised THEN Raises(t)
               ELSE AwaitService([t EXCEPT !.client = got.client],
                                 "generate_embedding"))
    /\ UNCHANGED <<reqVars, vt, probe, embedding_service, graph>>

\* lines 734-773: query_twins answers or fails
QueryTwinsReturns(ok) ==
    /\ tool.pc = "query_twins"
    /\ Step(IF ok THEN Returns(tool, "matches") ELSE Raises(tool))
    /\ UNCHANGED <<reqVars, vt, probe, embedding_service, graph>>

\* ------------------ update_digital_twin_embeddings, lines 488-520, and
\* ------------------ create_or_replace_digital_twin, lines 404-442
\* what embedding_service.generate_embeddings can do: one vector per text,
\* one empty embedding per text, the empty list (embeddings.py 96-97, 238-242),
\* raise
EmbeddingsResults == {"vectors", "empties", "short", "raise"}

\* zip(property_names, generated_embeddings): zip stops at the shorter list
ZipEmbeddings(embeddings, result) ==
    CASE result = "vectors" -> {<<e[1], Vector>> : e \in embeddings.items}
      [] result = "empties" -> {<<e[1], EmptyList>> : e \in embeddings.items}
      [] result = "short" -> {}

\* all_properties[name] = embedding, for each pair
DictUpdate(items, new) ==
    {e \in items : \A n \in new : n[1] # e[1]} \cup new

\* lines 488-495 obtaining the client before the test of the service
UpdateDigitalTwinEmbeddingsClientFirst(r, twin_id, embeddings) ==
    /\ tool.pc = "idle"
    /\ LET t == [Started("update_digital_twin_embeddings", r) EXCEPT
                    !.twin_id = twin_id, !.embeddings = embeddings]
           got == get_client(request_context, r)
       IN Step(IF got.raised THEN Raises(t)
               ELSE IF ~is_embedding_service_configured(embedding_service)
               THEN Returns([t EXCEPT !.client = got.client], "success_false")
               ELSE AwaitService([t EXCEPT !.client = got.client],
                                 "generate_embeddings"))
    /\ UNCHANGED <<reqVars, vt, probe, embedding_service, graph>>

\* lines 488-504, up to the first await
UpdateDigitalTwinEmbeddings(r, twin_id, embeddings) ==
    /\ tool.pc = "idle"
    /\ LET t == [Started("update_digital_twin_embeddings", r) EXCEPT
                    !.twin_id = twin_id, !.embeddings = embeddings]
           got == get_client(request_context, r)
       IN Step(IF ~is_embedding_service_configured(embedding_service)
               THEN Returns(t, "success_false")
               ELSE IF got.raised THEN Raises(t)
               ELSE AwaitService([t EXCEPT !.client = got.client],
                                 "generate_embeddings"))
    /\ UNCHANGED <<reqVars, vt, probe, embedding_service, graph>>

\* lines 404-441, up to the first await
CreateOrReplaceDigitalTwin(r, twin_id, properties, embeddings) ==
    /\ tool.pc = "idle"
    /\ LET got == get_client(request_context, r)
           all_properties == IF TruthyDict(properties) THEN properties.items ELSE {}
           t == [Started("create_or_replace_digital_twin", r) EXCEPT
                    !.twin_id = twin_id, !.properties = properties,
                    !.embeddings = embeddings, !.all_properties = all_properties,
                    !.client = got.client]
       IN Step(IF got.raised THEN Raises(t)
               ELSE IF /\ TruthyDict(embeddings)
                       /\ is_embedding_service_configured(embedding_service)
               THEN AwaitService(t, "generate_embeddings")
               ELSE Await(t, "upsert_digital_twin", twin_id, "", None, None,
                          all_properties))
    /\ UNCHANGED <<reqVars, vt, probe, embedding_service, graph>>

\* lines 418-441, 504-514: generate_embeddings answers
GenerateEmbeddingsReturns(result) ==
    /\ tool.pc = "generate_embeddings"
    /\ Step(IF result = "raise" THEN Raises(tool)
            ELSE LET pairs == ZipEmbeddings(tool.embeddings, result)
                 IN IF tool.name = "update_digital_twin_embeddings"
                    THEN Await(tool, "update_digital_twin", tool.twin_id, "",
                               None, None, pairs)
                    ELSE LET t == [tool EXCEPT !.all_properties = DictUpdate(@, pairs)]
                         IN Await(t, "upsert_digital_twin", t.twin_id, "",
                                  None, None, t.all_properties))
    /\ UNCHANGED <<reqVars, vt, probe, embedding_service, graph>>

\* lines 514-520: update_digital_twin answers or fails
UpdateDigitalTwinReturns(ok) ==
    /\ tool.pc = "update_digital_twin"
    /\ Step(IF ok THEN Returns(tool, "success") ELSE Raises(tool))
    /\ UNCHANGED <<reqVars, vt, probe, embedding_service, graph>>

\* lines 441-442: upsert_digital_twin answers or fails
UpsertDigitalTwinReturns(ok) ==
    /\ tool.pc = "upsert_digital_twin"
    /\ IF ok
       THEN /\ graph' = [graph EXCEPT !.twins = @ \cup {tool.twin_id}]
            /\ Step(Returns(tool, "twin"))
       ELSE /\ Step(Raises(tool))
            /\ UNCHANGED graph
    /\ UNCHANGED <<reqVars, vt, probe, embedding_service>>

\* ------------------------------------------------- the tools at work
SearchTexts == {None, EmptyStr, SearchText}
PropertiesArgs ==
    {NoneDict, Dict({}), Dict({<<"temperature", <<"7", "0">>>>}),
     Dict({<<"descriptionEmbedding", <<"o">>>>})}
EmbeddingsArgs == {NoneDict, Dict({}), Dict({<<"descriptionEmbedding", <<"d">>>>})}

\* a request that the middleware dispatches when it arrives (auth is None)
ToolScope == MkScope("http", PathMcp, QueryA, <<>>)

\* the server with or without an embedding service (server.py 54-121),
\* before any request
InitTools ==
    /\ auth = "None"
    /\ InitReqs
    /\ vt = VerifyIdle
    /\ probe = NoProbe
    /\ embedding_service \in {"None", "service"}
    /\ tool = ToolIdle
    /\ graph \in Graphs
    /\ client_calls = <<>>

NextTools ==
    \/ \E r \in Reqs : Call(r, ToolScope)
    \/ \E r \in Reqs, d \in BOOLEAN : DeleteDigitalTwin(r, ToolTwin, d)
    \/ \E ok \in BOOLEAN : ListRelationshipsReturns(ok)
    \/ \E ok \in BOOLEAN : ListIncomingRelationshipsReturns(ok)
    \/ \E ok \in BOOLEAN : DeleteRelationshipReturns(ok)
    \/ \E ok \in BOOLEAN : DeleteDigitalTwinReturns(ok)
    \/ \E r \in Reqs, text \in SearchTexts, v \in BOOLEAN : SearchModels(r, text, v)
    \/ \E r \in Reqs, text \in SearchTexts \ {None}, v \in BOOLEAN :
          SearchDigitalTwins(r, text, v)
    \/ \E r \in Reqs : VectorSearchWithGraph(r, SearchText)
    \/ \E result \in EmbeddingResults : GenerateEmbeddingReturns(result)
    \/ \E ok \in BOOLEAN : SearchReturns(ok)
    \/ \E ok \in BOOLEAN : QueryTwinsReturns(ok)
    \/ \E r \in Reqs, e \in EmbeddingsArgs \ {NoneDict} :
          UpdateDigitalTwinEmbeddings(r, ToolTwin, e)
    \/ \E r \in Reqs, p \in PropertiesArgs, e \in EmbeddingsArgs :
          CreateOrReplaceDigitalTwin(r, ToolTwin, p, e)
    \/ \E result \in EmbeddingsResults : GenerateEmbeddingsReturns(result)
    \/ \E ok \in BOOLEAN : UpdateDigitalTwinReturns(ok)
    \/ \E ok \in BOOLEAN : UpsertDigitalTwinReturns(ok)

SpecTools == InitTools /\ [][NextTools]_vars

\* =================================================================== claims
UnderMcp(s) == s.type = "http" /\ StartsWith(s.path, McpPrefix)

Arrived(r) == pc[r] # "idle"

\* the request carries no resource_id query parameter and no X-Resource-Id header
CarriesNoResourceId(s) ==
    /\ \A i \in DOMAIN s.query_string : s.query_string[i][1] # QUERY_PARAM
    /\ \A i \in DOMAIN s.headers : s.headers[i][1] # HEADER_NAME

ClientMade(r) == r \in DOMAIN clients

\* C1: an http request under /mcp that carries neither a resource_id query
\* parameter nor an X-Resource-Id header is answered 400 missing_resource_id,
\* and for it load_access_token is never called, no client is created, no
\* context is set and the wrapped app is never invoked.
C1_MissingResourceId ==
    \A r \in Reqs :
        (Arrived(r) /\ UnderMcp(scope[r]) /\ CarriesNoResourceId(scope[r])) =>
            /\ pc[r] = "done"
            /\ response[r] = JSONResponse("missing_resource_id", 400)
            /\ calls[r].load_access_token = 0
            /\ ~ClientMade(r)
            /\ calls[r].context_set = 0
            /\ request_context[r] = NoContext
            /\ calls[r].app = 0

C1_Witness ==
    \E r \in Reqs :
        /\ auth = "OIDCProxy"
        /\ pc[r] = "done"
        /\ UnderMcp(scope[r])
        /\ CarriesNoResourceId(scope[r])
        /\ BearerToken(scope[r]) = RawToken
        /\ response[r].status_code = 400

\* C2: the client a request constructed has close() invoked exactly once
\* when the request is over, however the wrapped app ended (return, raise,
\* cancellation), never more than once before; a request the middleware
\* rejected has no client and so no close().
C2_CloseExactlyOnce ==
    \A r \in Reqs :
        /\ ClientMade(r) =>
              /\ clients[r].close_calls <= 1
              /\ pc[r] = "app" => clients[r].close_calls = 0
              /\ pc[r] \in {"close", "done"} => clients[r].close_calls = 1
        /\ (pc[r] = "done" /\ response[r] # NoResponse) => ~ClientMade(r)
        /\ DOMAIN clients \subseteq Reqs

C2_Witness ==
    \E r, q \in Reqs :
        /\ pc[r] = "done" /\ ClientMade(r)
        /\ app_exit[r] = "cancelled" /\ clients[r].close_calls = 1
        /\ pc[q] = "done" /\ ClientMade(q)
        /\ app_exit[q] = "raise" /\ clients[q].close_calls = 1

\* C3: whatever the interleaving of the requests, a context that
\* get_current_context() returns to the handler of request r is the
\* RequestContext made for r: r's tenant, r's client.
C3_Isolation ==
    \A r \in Reqs :
        observed[r].ctx # NoContext =>
            /\ observed[r].ctx.client = r
            /\ observed[r].ctx.resource_id = locals[r].resource_id
            /\ clients[observed[r].ctx.client].endpoint
                   = ApiBaseUrlTemplate(locals[r].resource_id)

C3_Witness ==
    \E r, q \in Reqs :
        /\ pc[r] = "app" /\ pc[q] = "app"
        /\ locals[r].resource_id = <<"a">> /\ locals[q].resource_id = <<"x">>
        /\ observed[r].ctx # NoContext /\ observed[q].ctx # NoContext

\* C4 (as claimed): with authentication enabled, the access token of every
\* RequestContext is one a verifier accepted for the request, that is the
\* token of the AccessToken that load_access_token returned.
C4_ContextTokenVerified ==
    auth = "OIDCProxy" =>
        \A r \in Reqs :
            request_context[r] # NoContext =>
                /\ load_result[r] = "upstream"
                /\ request_context[r].access_token = UpstreamToken

\* C5 (as claimed): with authentication enabled, a request whose bearer
\* token the provider does not recognise (load_access_token returns None or
\* raises) gets 401 authentication_required and the wrapped app is not run.
C5_UnrecognizedToken401 ==
    auth = "OIDCProxy" =>
        \A r \in Reqs :
            load_result[r] \in {"none", "raise"} =>
                /\ pc[r] = "done"
                /\ response[r] = JSONResponse("authentication_required", 401)
                /\ calls[r].app = 0

\* the Authorization header is absent, does not start with "Bearer " or
\* carries an empty token
NoBearerToken(s) ==
    \A i \in DOMAIN s.headers :
        s.headers[i][1] = AUTHORIZATION =>
            \/ ~StartsWith(s.headers[i][2], BearerPrefix)
            \/ Len(s.headers[i][2]) = Len(BearerPrefix)

\* C6: with authentication enabled and the tenant resolved, a request with
\* no Authorization header, one that does not start with "Bearer ", or one
\* with an empty token gets 401 authentication_required; load_access_token
\* is never called, no client is created, the wrapped app is never invoked.
C6_NoBearer401 ==
    auth = "OIDCProxy" =>
        \A r \in Reqs :
            (/\ Arrived(r) /\ UnderMcp(scope[r])
             /\ ~CarriesNoResourceId(scope[r]) /\ Truthy(locals[r].resource_id)
             /\ NoBearerToken(scope[r])) =>
                /\ pc[r] = "done"
                /\ response[r] = JSONResponse("authentication_required", 401)
                /\ calls[r].load_access_token = 0
                /\ ~ClientMade(r)
                /\ calls[r].app = 0

C6_Witness ==
    \E r, q \in Reqs :
        /\ auth = "OIDCProxy"
        /\ pc[r] = "done" /\ scope[r].headers = <<HdrBearerEmpty>>
        /\ response[r].status_code = 401
        /\ pc[q] = "done" /\ scope[q].headers = <<HdrBasic>>
        /\ response[q].status_code = 401

\* the positions of the query pairs that give resource_id a value
QueryValueAt(s) ==
    {i \in DOMAIN s.query_string :
        s.query_string[i][1] = QUERY_PARAM /\ s.query_string[i][2] # EmptyStr}

QueryParamAbsent(s) ==
    \A i \in DOMAIN s.query_string : s.query_string[i][1] # QUERY_PARAM

HeaderAt(s) == {i \in DOMAIN s.headers : s.headers[i][1] = HEADER_NAME}

First(I) == CHOOSE i \in I : \A j \in I : i <= j
Last(I) == CHOOSE i \in I : \A j \in I : j <= i

\* C7: tenant resolution has a fixed priority: a resource_id value in the
\* query string is the resolved tenant id whatever the X-Resource-Id header
\* says; with the query parameter absent the header value is used; with
\* neither present resolution fails.
C7_QueryBeforeHeader ==
    probe.done =>
        LET s == probe.scope
        IN /\ QueryValueAt(s) # {} =>
                 probe.resource_id = s.query_string[First(QueryValueAt(s))][2]
           /\ (QueryParamAbsent(s) /\ HeaderAt(s) # {}
                 /\ s.headers[Last(HeaderAt(s))][2] # EmptyStr) =>
                 probe.resource_id = s.headers[Last(HeaderAt(s))][2]
           /\ (QueryParamAbsent(s) /\ HeaderAt(s) = {}) =>
                 probe.resource_id = None
           /\ (probe.resource_id # None /\ QueryValueAt(s) = {}) =>
                 /\ HeaderAt(s) # {}
                 /\ probe.resource_id = s.headers[Last(HeaderAt(s))][2]

C7_Witness ==
    /\ probe.done
    /\ QueryValueAt(probe.scope) # {}
    /\ HeaderAt(probe.scope) # {}
    /\ probe.scope.headers[Last(HeaderAt(probe.scope))][2] = <<"x">>
    /\ probe.resource_id = <<"a">>

\* C8: when the JWTVerifier stage returns an access token, verify_token
\* returns that token and the parent OIDCProxy stage is not invoked in the
\* call.
C8_LocalShortCircuits ==
    vt.local = "token" =>
        /\ vt.pc = "returned"
        /\ ~vt.raised
        /\ vt.result = AccessToken(vt.token, "JWTVerifier")
        /\ vt.stages = <<"local">>
        /\ vt.exchange = ""

C8_Witness ==
    /\ vt.pc = "returned"
    /\ vt.local = "token"
    /\ vt.result.verifier = "JWTVerifier"

\* C9: the JWTVerifier stage is always attempted first; when it fails
\* (returns None or raises) the parent OIDCProxy stage is attempted exactly
\* once after it, and a token it returns is the result of verify_token.
C9_FallbackToExchange ==
    /\ vt.stages \in {<<>>, <<"local">>, <<"local", "exchange">>}
    /\ vt.local \in {"none", "raise"} =>
          /\ vt.stages = <<"local", "exchange">>
          /\ vt.pc \in {"oidc_proxy", "returned"}
          /\ (vt.pc = "oidc_proxy") = (vt.exchange = "")
          /\ vt.exchange = "token" =>
                /\ vt.pc = "returned"
                /\ ~vt.raised
                /\ vt.result = AccessToken(UpstreamToken, "OIDCProxy")

C9_Witness ==
    /\ vt.pc = "returned"
    /\ vt.local = "raise"
    /\ vt.exchange = "token"
    /\ vt.result.verifier = "OIDCProxy"

\* C10: when both stages fail, each by returning None or by raising,
\* verify_token returns None and raises nothing, the same for every
\* combination of the two failures.
C10_BothFailReturnNone ==
    (vt.local \in {"none", "raise"} /\ vt.exchange \in {"none", "raise"}) =>
        /\ vt.pc = "returned"
        /\ vt.result = NoAccessToken
        /\ ~vt.raised
        /\ vt.returned[Len(vt.returned)] = [result |-> NoAccessToken, raised |-> FALSE]

C10_Witness ==
    /\ vt.pc = "returned"
    /\ vt.local = "raise"
    /\ vt.exchange = "raise"
    /\ vt.result = NoAccessToken

C12_OpaqueTokenSwapped ==
    auth = "OIDCProxy" =>
        \A r \in Reqs :
            load_result[r] = "upstream" =>
                /\ pc[r] \in {"app", "close", "done"}
                /\ ClientMade(r)
                /\ clients[r].credential = UpstreamToken
                /\ clients[r].credential # locals[r].token
                /\ request_context[r] # NoContext =>
                      request_context[r].access_token = UpstreamToken

C12_Witness ==
    \E r \in Reqs :
        /\ auth = "OIDCProxy"
        /\ pc[r] = "app"
        /\ load_result[r] = "upstream"
        /\ locals[r].token = RawToken
        /\ request_context[r].access_token = UpstreamToken

\* C13 (as claimed): with authentication enabled, a request with a tenant
\* and a raw bearer token is dispatched with a client for that tenant whose
\* credential is exactly the bearer token, whatever the exchange lookup
\* (load_access_token) answers for the token.
C13_RawTokenWhateverExchange ==
    auth = "OIDCProxy" =>
        \A r \in Reqs :
            load_result[r] \in {"upstream", "empty", "none", "raise"} =>
                /\ ClientMade(r)
                /\ calls[r].app = 1
                /\ clients[r].endpoint = ApiBaseUrlTemplate(locals[r].resource_id)
                /\ clients[r].credential = locals[r].token

\* C14: with authentication disabled every request under /mcp with a tenant
\* is bound with the empty access token, whatever its Authorization header;
\* load_access_token is never called and no 401 is sent.
C14_AuthDisabledEmptyToken ==
    auth = "None" =>
        \A r \in Reqs :
            /\ calls[r].load_access_token = 0
            /\ load_result[r] = ""
            /\ response[r].status_code # 401
            /\ (Arrived(r) /\ UnderMcp(scope[r])
                  /\ Truthy(ExtractResourceId(scope[r]))) =>
                  /\ ClientMade(r)
                  /\ clients[r].credential = EmptyStr
                  /\ calls[r].app = 1
                  /\ response[r] = NoResponse
                  /\ pc[r] = "app" => request_context[r].access_token = EmptyStr

C14_Witness ==
    \E r, q \in Reqs :
        /\ auth = "None"
        /\ pc[r] = "app" /\ scope[r].headers = <<HdrX, HdrBearer>>
        /\ request_context[r].access_token = EmptyStr
        /\ pc[q] = "app" /\ scope[q].headers = <<HdrBasic>>
        /\ request_context[q].access_token = EmptyStr

\* C15: get_current_context() returns a RequestContext only to a request
\* that is dispatched (context bound, not yet released); called while the
\* request is still authenticating, after the release, or in a request
\* answered 400 or 401, it raises instead.
C15_ContextOnlyWhileDispatched ==
    \A r \in Reqs :
        /\ (request_context[r] # NoContext) = (pc[r] = "app")
        /\ observed[r].ctx # NoContext =>
              /\ pc[r] = "app"
              /\ observed[r].ctx = request_context[r]
        /\ (observed[r] # NotCalled /\ pc[r] # "app") => observed[r].raised

C15_Witness ==
    \E r, q \in Reqs :
        /\ pc[r] = "done" /\ response[r].status_code = 401 /\ observed[r].raised
        /\ pc[q] = "close" /\ observed[q].raised

\* C16 (as claimed): a close() that raises is not surfaced: __call__ ends
\* the way the wrapped app ended, whether or not close() failed.
C16_CloseFailureNotSurfaced ==
    \A r \in Reqs :
        (pc[r] = "done" /\ ClientMade(r)) => call_exit[r] = app_exit[r]

\* the reasons for which authentication of a request with a tenant fails:
\* no usable Authorization header, a lookup that finds nothing, an empty
\* upstream token, an exception
AuthFailed(r) ==
    /\ Arrived(r) /\ UnderMcp(scope[r]) /\ Truthy(locals[r].resource_id)
    /\ \/ NoBearerToken(scope[r])
       \/ load_result[r] \in {"none", "empty", "raise"}

\* C17 (as claimed): with authentication enabled, every request whose
\* authentication failed, for whichever reason, gets the one fixed response
\* 401 authentication_required.
C17_Uniform401 ==
    auth = "OIDCProxy" =>
        \A r \in Reqs :
            AuthFailed(r) =>
                /\ pc[r] = "done"
                /\ response[r] = JSONResponse("authentication_required", 401)

\* C18: whenever a RequestContext (or a client) exists its tenant id is a
\* non-empty string; a blank resource_id query value or an empty
\* X-Resource-Id header never leads to one.
C18_TenantNonEmpty ==
    \A r \in Reqs :
        /\ request_context[r] # NoContext =>
              /\ request_context[r].resource_id # None
              /\ Len(request_context[r].resource_id) > 0
        /\ ClientMade(r) =>
              /\ locals[r].resource_id # None
              /\ Len(locals[r].resource_id) > 0
        /\ (Arrived(r) /\ QueryValueAt(scope[r]) = {}
              /\ \A i \in HeaderAt(scope[r]) : scope[r].headers[i][2] = EmptyStr) =>
              /\ ~ClientMade(r)
              /\ request_context[r] = NoContext

C18_Witness ==
    \E r, q \in Reqs :
        /\ pc[r] = "done" /\ response[r].status_code = 400
        /\ scope[r].query_string = QueryBlank
        /\ scope[r].headers = <<HdrXEmpty, HdrBearer>>
        /\ pc[q] = "app" /\ scope[q].query_string = QueryBlank
        /\ request_context[q].resource_id = <<"x">>

\* C19: a request that is not http, or whose path does not start with
\* /mcp, goes to the wrapped app and nothing else: no tenant resolution, no
\* load_access_token, no client, no context, no 400 or 401.
C19_PassThroughUntouched ==
    \A r \in Reqs :
        (Arrived(r) /\ ~UnderMcp(scope[r])) =>
            /\ calls[r].app = 1
            /\ calls[r].load_access_token = 0
            /\ calls[r].context_set = 0
            /\ ~ClientMade(r)
            /\ locals[r] = NoLocals
            /\ request_context[r] = NoContext
            /\ response[r] = NoResponse
            /\ pc[r] \in {"passthrough", "done"}
            /\ pc[r] = "done" => call_exit[r] = app_exit[r]

C19_Witness ==
    \E r, q \in Reqs :
        /\ pc[r] = "done" /\ scope[r].type = "websocket"
        /\ StartsWith(scope[r].path, McpPrefix) /\ calls[r].app = 1
        /\ pc[q] = "done" /\ scope[q].type = "http"
        /\ scope[q].path = PathHealth /\ calls[q].app = 1

\* C20: the RequestContext bound for a request holds the tenant id resolved
\* for that request and the access token obtained for it, and its client is
\* the one made from that pair: endpoint the URL template with the tenant
\* id, credential the access token.
C20_ContextMatchesRequest ==
    \A r \in Reqs :
        request_context[r] # NoContext =>
            LET ctx == request_context[r]
            IN /\ ctx.resource_id = ExtractResourceId(scope[r])
               /\ ctx.access_token =
                     IF auth = "None" THEN EmptyStr
                     ELSE IF load_result[r] = "upstream" THEN UpstreamToken
                     ELSE SliceFrom(scope[r].headers[Len(scope[r].headers)][2], 7)
               /\ ctx.client = r
               /\ ClientMade(r)
               /\ clients[r].endpoint
                     = <<"https://">> \o ctx.resource_id \o <<".api.graph.konnektr.io">>
               /\ clients[r].credential = ctx.access_token

C20_Witness ==
    \E r, q \in Reqs :
        /\ auth = "OIDCProxy"
        /\ pc[r] = "app" /\ load_result[r] = "upstream"
        /\ clients[r].endpoint = <<"https://", "a", ".api.graph.konnektr.io">>
        /\ clients[r].credential = UpstreamToken
        /\ pc[q] = "app" /\ load_result[q] = "none"
        /\ clients[q].endpoint = <<"https://", "x", ".api.graph.konnektr.io">>
        /\ clients[q].credential = RawToken

\* C21: a token returned by verify_token is the access token of the stage
\* that itself returned one: the JWTVerifier's when that stage succeeded,
\* else the OIDCProxy's when that stage succeeded after the first failed;
\* never a token when the deciding stage raised or returned None, and
\* never one alongside a raised exception.
C21_ResultFromSucceedingStage ==
    /\ vt.result # NoAccessToken =>
          /\ vt.pc = "returned"
          /\ ~vt.raised
          /\ \/ /\ vt.result = AccessToken(vt.token, "JWTVerifier")
                /\ vt.local = "token"
                /\ vt.exchange = ""
             \/ /\ vt.result = AccessToken(UpstreamToken, "OIDCProxy")
                /\ vt.local \in {"none", "raise"}
                /\ vt.exchange = "token"
    /\ \A i \in DOMAIN vt.returned :
          vt.returned[i].raised => vt.returned[i].result = NoAccessToken

C21_Witness ==
    /\ vt.pc = "returned"
    /\ Len(vt.returned) = 2
    /\ vt.returned[1].result.verifier = "JWTVerifier"
    /\ vt.local = "none"
    /\ vt.exchange = "token"
    /\ vt.result = AccessToken(UpstreamToken, "OIDCProxy")

\* C24: a request whose context variable holds a RequestContext has a
\* client on which close() has not been called: the context is reset
\* before the client is closed.
C24_BoundClientOpen ==
    \A r \in Reqs :
        request_context[r] # NoContext =>
            /\ ClientMade(r)
            /\ request_context[r].client = r
            /\ clients[r].close_calls = 0
            /\ pc[r] = "app"

C24_Witness ==
    \E r, q \in Reqs :
        /\ pc[r] = "app" /\ request_context[r].client = r
        /\ clients[r].close_calls = 0
        /\ pc[q] = "close" /\ request_context[q] = NoContext
        /\ clients[q].close_calls = 1

\* C25: when load_access_token returns an AccessToken whose token is empty
\* the request is answered 401 authentication_required; the header token
\* is not used, no client is made and the wrapped app is not invoked.
C25_EmptyUpstream401 ==
    \A r \in Reqs :
        load_result[r] = "empty" =>
            /\ pc[r] = "done"
            /\ response[r] = JSONResponse("authentication_required", 401)
            /\ ~ClientMade(r)
            /\ request_context[r] = NoContext
            /\ calls[r].app = 0
            /\ calls[r].context_set = 0
            /\ call_exit[r] = "return"

C25_Witness ==
    \E r \in Reqs :
        /\ load_result[r] = "empty"
        /\ locals[r].token = RawToken
        /\ response[r].status_code = 401
        /\ calls[r].load_access_token = 1

\* C26: when load_access_token raises, __call__ does not raise: the request
\* is answered 401 authentication_required, no client is made and the
\* wrapped app is not invoked.
C26_LookupRaises401 ==
    \A r \in Reqs :
        load_result[r] = "raise" =>
            /\ pc[r] = "done"
            /\ call_exit[r] = "return"
            /\ response[r] = JSONResponse("authentication_required", 401)
            /\ ~ClientMade(r)
            /\ request_context[r] = NoContext
            /\ calls[r].app = 0

C26_Witness ==
    \E r \in Reqs :
        /\ load_result[r] = "raise"
        /\ call_exit[r] = "return"
        /\ response[r].status_code = 401
        /\ calls[r].load_access_token = 1

\* C27: a query string that is not empty but gives resource_id no value
\* (no such parameter, or only blank values) leaves the tenant id to the
\* X-Resource-Id header: its value when there is a non-empty one, else
\* none; of several resource_id values the first is the tenant id.
C27_BlankQueryFallsBack ==
    probe.done =>
        LET s == probe.scope
        IN /\ (s.query_string # <<>> /\ QueryValueAt(s) = {}) =>
                 probe.resource_id =
                     IF HeaderAt(s) # {} /\ s.headers[Last(HeaderAt(s))][2] # EmptyStr
                     THEN s.headers[Last(HeaderAt(s))][2]
                     ELSE None
           /\ Cardinality(QueryValueAt(s)) >= 2 =>
                 probe.resource_id = s.query_string[First(QueryValueAt(s))][2]

C27_Witness ==
    /\ probe.done
    /\ probe.scope.query_string = <<<<QUERY_PARAM, EmptyStr>>, <<"other", <<"a">>>>>>
    /\ probe.scope.headers = <<<<HEADER_NAME, <<"x">>>>>>
    /\ probe.resource_id = <<"x">>

\* the positions in client_calls of the calls of one operation
CallsOf(op) == {i \in DOMAIN client_calls : client_calls[i].op = op}

RelationshipCalls ==
    CallsOf("list_relationships") \cup CallsOf("list_incoming_relationships")
        \cup CallsOf("delete_relationship")

Touches(e, twin_id) == e.sourceId = twin_id \/ e.targetId = twin_id

\* C28: delete_digital_twin with delete_relationships lists and deletes the
\* outgoing relationships, then the incoming ones, and calls
\* delete_digital_twin only after all of that succeeded, when no
\* relationship of the twin is left; a listing or deletion that fails ends
\* the tool with the twin in place; without delete_relationships the only
\* call is delete_digital_twin.
C28_RelationshipsBeforeTwin ==
    tool.name = "delete_digital_twin" =>
        /\ ~tool.flag => RelationshipCalls = {}
        /\ \A i \in DOMAIN client_calls : client_calls[i].client = tool.task
        /\ (tool.flag /\ CallsOf("delete_digital_twin") # {}) =>
              LET twin == First(CallsOf("delete_digital_twin"))
                  out == First(CallsOf("list_relationships"))
                  inc == First(CallsOf("list_incoming_relationships"))
              IN /\ Cardinality(CallsOf("delete_digital_twin")) = 1
                 /\ Cardinality(CallsOf("list_relationships")) = 1
                 /\ Cardinality(CallsOf("list_incoming_relationships")) = 1
                 /\ out = 1 /\ out < inc /\ inc < twin
                 /\ twin = Len(client_calls)
                 /\ \A i \in CallsOf("delete_relationship") :
                       i < inc => client_calls[i].a = tool.twin_id
                 /\ \A e \in graph.rels : ~Touches(e, tool.twin_id)
        /\ (tool.pc = "returned" /\ tool.raised /\ client_calls # <<>>
              /\ client_calls[Len(client_calls)].op # "delete_digital_twin") =>
              /\ CallsOf("delete_digital_twin") = {}
              /\ tool.twin_id \in graph.twins
        /\ tool.twin_id \notin graph.twins => tool.result = "success"

C28_Witness ==
    /\ tool.name = "delete_digital_twin"
    /\ tool.flag
    /\ tool.result = "success"
    /\ Len(client_calls) = 6
    /\ client_calls[2].a = "t" /\ client_calls[5].a = "u"
    /\ graph.rels = {}
    /\ ToolTwin \notin graph.twins

\* the search tool asked the embedding service for a query embedding and
\* got none: an exception, None or the empty embedding
EmbeddingFailed ==
    /\ tool.name \in {"search_models", "search_digital_twins"}
    /\ tool.pc \in {"search_models", "search_twins", "returned"}
    /\ tool.client # 0
    /\ tool.flag
    /\ tool.name = "search_models" => Truthy(tool.search_text)
    /\ is_embedding_service_configured(embedding_service)
    /\ ~Truthy(tool.query_embedding)

\* C29 (as claimed): when the generation of the query embedding fails, by
\* an exception or by an empty embedding, the search tool still makes its
\* backend search call, exactly once, and passes no vector to it.
C29_FailedEmbeddingKeywordOnly ==
    EmbeddingFailed =>
        /\ Len(client_calls) = 1
        /\ client_calls[1].op \in {"search_models", "search_twins"}
        /\ client_calls[1].text = OrEmpty(tool.search_text)
        /\ client_calls[1].vector = None

\* C30: with no embedding service set, update_digital_twin_embeddings and
\* vector_search_with_graph return success=false without a call on a
\* client and without obtaining one, and create_or_replace_digital_twin
\* makes one upsert whose contents are the given properties alone.
C30_NoServiceNoBackendCall ==
    ~is_embedding_service_configured(embedding_service) =>
        /\ tool.name \in {"update_digital_twin_embeddings", "vector_search_with_graph"} =>
              /\ tool.pc = "returned"
              /\ tool.result = "success_false"
              /\ ~tool.raised
              /\ tool.client = 0
              /\ client_calls = <<>>
        /\ (tool.name = "create_or_replace_digital_twin" /\ tool.client # 0) =>
              /\ tool.pc \in {"upsert_digital_twin", "returned"}
              /\ Len(client_calls) = 1
              /\ client_calls[1].op = "upsert_digital_twin"
              /\ client_calls[1].a = tool.twin_id
              /\ client_calls[1].contents =
                    IF tool.properties.is_none THEN {} ELSE tool.properties.items
              /\ \A e \in client_calls[1].contents : e[2] \notin {Vector, EmptyList}

C30_Witness ==
    /\ embedding_service = "None"
    /\ tool.name = "create_or_replace_digital_twin"
    /\ tool.result = "twin"
    /\ tool.embeddings = Dict({<<"descriptionEmbedding", <<"d">>>>})
    /\ client_calls[1].contents = {<<"temperature", <<"7", "0">>>>}

====
